---- MODULE Spec2Model ----
(***************************************************************************)
(* Model of ambient-network-chill-hours.                                   *)
(*                                                                         *)
(*   AmbientWeatherAPI (services/ambientApi.ts, src/unnamed/part_000       *)
(*   lines 225-580): the backward, paginated range fetch with its retry    *)
(*   sub-protocol.  One action per stretch of code between two awaits      *)
(*   (axios.get, the backoff sleep, the rate-limit sleep).                 *)
(*                                                                         *)
(*   ChillHourCalculator (src/src/services/chillHours.ts): the hour        *)
(*   bucketing and the report, a pure function applied by one action.      *)
(*                                                                         *)
(* A reading is modelled in the fetcher by its dateutc alone (epoch ms):   *)
(* the fetcher reads no other field.  In the calculator a reading is the   *)
(* record [dateutc, tempf].                                                *)
(***************************************************************************)
EXTENDS Integers, Sequences, FiniteSets, TLC

\* ------------------------------------------------------------------ bounds
\* Timestamps of the fetcher's world lie on a grid of MaxTick+1 points,
\* TimeStep milliseconds apart (half a second: closer than ONE_SECOND_MS).
MaxTick == 4
TimeStep == 500
\* The data source answers with at most PageCap readings per page, whatever
\* limit the request carries.
PageCap == 2
\* Transport failures are injected only into the first MaxFaultyFetch page
\* requests of a fetch.
MaxFaultyFetch == 2
\* The calculator is given at most MaxReadings readings, taken at the slots
\* 0..MaxSlot, SlotMinutes minutes apart, counted from 18:00 UTC of the
\* first day: half an hour before midnight in the zone UTC+5:30, so that
\* consecutive slots can lie on two calendar days.
MaxReadings == 4
MaxSlot == 1
SlotMinutes == 30
\* A season calculation is given at most MaxSeasonReadings readings.
MaxSeasonReadings == 2

\* ------------------------------------------------------ program constants
DEFAULT_RATE_LIMIT_DELAY_MS == 1000
DEFAULT_READINGS_PER_CHUNK == 500
MAX_FETCH_OPERATIONS == 100
HTTP_RATE_LIMIT_STATUS == 429
HTTP_SERVER_ERROR_MIN == 500
HTTP_SERVER_ERROR_MAX == 599
DEFAULT_MAX_RETRIES == 3
ONE_SECOND_MS == 1000
DEFAULT_MIN_TEMP_F == 32
DEFAULT_MAX_TEMP_F == 45
MIN_COVERAGE_PERCENT == 80
DECEMBER_MONTH == 11
MILLISECONDS_PER_HOUR == 60 * 60 * 1000
MILLISECONDS_PER_DAY == 24 * 60 * 60 * 1000

VARIABLES
    \* environment: the data source
    sourceMode,        \* "honest": newest readings at or before the requested end
                       \* "ignoring": the newest readings, whatever end is requested
    sourceOrder,       \* "desc" (newest first) or "asc": order inside a page
    store,             \* the timestamps the source holds
    \* AmbientWeatherAPI instance
    rateLimitDelay,
    \* getDeviceDataForDateRange / fetchDataInChunks frame
    pc,                \* "idle" | "request" | "backoff" | "delay" | "done" | "failed"
    startDate, endDate,
    currentEnd, allData, reachedStartDate, fetchCount,
    \* makeRequest frame
    retries,
    \* outcome
    result,            \* the array getDeviceDataForDateRange resolves with
    thrown,            \* the value it rejects with
    \* observation (history) variables
    attempts,          \* axios.get calls of the current makeRequest call
    waits,             \* backoff sleeps of the current makeRequest call, in order
    delays,            \* rate-limit sleeps taken so far in this fetch
    pageLog,           \* the pages received so far, in order
    lastError,         \* the error of the latest failed axios.get
    \* ChillHourCalculator instance and its caller
    tzOffsetMin,       \* the local time zone of the process, minutes east of UTC
    minTemp, maxTemp,
    calcPc,            \* "off" | "ready" | "done" | "seasonReady" | "seasonDone"
    data,              \* the caller's array of readings
    report,            \* the ChillHourReport returned
    baseDay,           \* the day (days since 1970-01-01, UTC) whose 00:00 UTC the
                       \* dateutc values count from: an epoch-ms timestamp of a
                       \* real year does not fit a 32-bit integer, so a
                       \* timestamp is carried as baseDay plus milliseconds
    currentYear,       \* new Date().getFullYear() of the process
    seasonStartMonth,  \* argument of calculateSeasonChillHours (1..12)
    year,              \* argument of calculateSeasonChillHours; 0: omitted
    season,            \* the {seasonStart, seasonEnd} the call determined
    warnings           \* what the call wrote with console.warn

fetchVars == <<sourceMode, sourceOrder, store, rateLimitDelay, pc, startDate, endDate,
               currentEnd, allData, reachedStartDate, fetchCount, retries, result,
               thrown, attempts, waits, delays, pageLog, lastError>>

calcVars == <<tzOffsetMin, minTemp, maxTemp, calcPc, data, report, baseDay,
              currentYear, seasonStartMonth, year, season, warnings>>

vars == <<fetchVars, calcVars>>

envVars == <<sourceMode, sourceOrder, store, rateLimitDelay>>

Times == {k * TimeStep : k \in 0..MaxTick}

NoError == [name |-> "none", response |-> FALSE, status |-> 0]

\* a rational number num/den, the exact value of a JavaScript quotient
Ratio(num, den) == [num |-> num, den |-> den]

NoReport == [totalHours |-> 0, chillHours |-> 0, date |-> <<"unset">>,
             percentChillHours |-> Ratio(0, 1)]

\* an instant of time: the day (days since 1970-01-01) and the millisecond of
\* that day, in UTC; the value of a Date
Instant(day, ms) ==
    [day |-> day + (ms \div MILLISECONDS_PER_DAY), ms |-> ms % MILLISECONDS_PER_DAY]

NoSeason == [seasonStart |-> Instant(0, 0), seasonEnd |-> Instant(0, 0)]

\* the year the process runs in
ThisYear == 2024

\* no calculateSeasonChillHours call is part of the behaviour
NoSeasonCall ==
    /\ baseDay = 0 /\ currentYear = ThisYear
    /\ seasonStartMonth = 1 /\ year = 0
    /\ season = NoSeason /\ warnings = <<>>

\* -------------------------------------------------------------- helpers
Min2(a, b) == IF a <= b THEN a ELSE b

RECURSIVE Pow2(_)
\* Math.pow(2, n) for n >= 0
Pow2(n) == IF n <= 0 THEN 1 ELSE 2 * Pow2(n - 1)

SeqMin(s) == CHOOSE x \in {s[i] : i \in DOMAIN s} : \A i \in DOMAIN s : x <= s[i]
SeqMax(s) == CHOOSE x \in {s[i] : i \in DOMAIN s} : \A i \in DOMAIN s : x >= s[i]

\* [...data].sort((a, b) => a - b) on timestamps: position i holds the value v
\* with fewer than i elements below it and at least i elements not above it
SortAscending(s) ==
    [i \in 1..Len(s) |->
        CHOOSE v \in {s[j] : j \in DOMAIN s} :
            /\ Cardinality({j \in DOMAIN s : s[j] < v}) < i
            /\ i <= Cardinality({j \in DOMAIN s : s[j] <= v})]

RECURSIVE NewestFirst(_)
\* the elements of a finite set of timestamps, largest first
NewestFirst(S) ==
    IF S = {} THEN <<>>
    ELSE LET m == CHOOSE x \in S : \A y \in S : y <= x
         IN <<m>> \o NewestFirst(S \ {m})

Reverse(s) == [i \in 1..Len(s) |-> s[Len(s) + 1 - i]]

\* ------------------------------------------------------- the data source
\* Errors axios.get can reject with: an HTTP status, or no response at all
\* (network failure).
Statuses == {401, 404, 429, 499, 500, 503, 599, 600}

Errors == {[name |-> "AxiosError", response |-> TRUE, status |-> st] : st \in Statuses}
              \cup {[name |-> "AxiosError", response |-> FALSE, status |-> 0]}

\* The reply to GET /devices/<mac> with params {endDate, limit}: the newest
\* readings (at most limit, at most PageCap) at or before endDate; an
\* "ignoring" source disregards endDate and serves its newest readings.
SourcePage(params) ==
    LET eligible == IF sourceMode = "honest"
                    THEN {t \in store : t <= params.endDate}
                    ELSE store
        newest   == NewestFirst(eligible)
        n        == Min2(Len(newest), Min2(params.limit, PageCap))
        page     == SubSeq(newest, 1, n)
    IN IF sourceOrder = "desc" THEN page ELSE Reverse(page)

\* ----------------------------------------------------- AmbientWeatherAPI
\* mutant: every HTTP error status from 400 up is retried
isRetryableError_From400(error) ==
    error.response /\ error.status >= 400

\* error.response && (status === 429 || (status >= 500 && status <= 599))
isRetryableError(error) ==
    error.response /\ ( error.status = HTTP_RATE_LIMIT_STATUS
                        \/ ( error.status >= HTTP_SERVER_ERROR_MIN
                             /\ error.status <= HTTP_SERVER_ERROR_MAX ) )

\* mutant: linear instead of exponential backoff
calculateBackoffDelay_Linear(retryCount) == rateLimitDelay * retryCount

\* mutant: one retry more than the budget
RetriesExhausted_OffByOne(count, maxRetries) == count > maxRetries

\* if (retries >= maxRetries) throw error
RetriesExhausted(count, maxRetries) == count >= maxRetries

\* this.rateLimitDelay * Math.pow(2, retryCount - 1)
calculateBackoffDelay(retryCount) == rateLimitDelay * Pow2(retryCount - 1)

\* createRequestParams: limit and endDate are set when truthy; endDate travels
\* as toISOString(), which keeps the millisecond, so it is carried as the
\* epoch-ms value itself.
createRequestParams(endD, limit) == [limit |-> limit, endDate |-> endD]

\* mutant: the catch block throws a fresh error that only keeps the status
Rethrow_Fresh(error) == [name |-> "Error", response |-> FALSE, status |-> error.status]

\* catch (error) { console.error(...); throw error; } in getDeviceData and in
\* getDeviceDataForDateRange: what the caller receives for a thrown error
Rethrow(error) == error

findDateBounds(chunkData) ==
    [earliestTimestamp |-> SeqMin(chunkData), latestTimestamp |-> SeqMax(chunkData)]

\* mutant: the start date counts as reached one second early
processChunk_StopsEarly(chunkData, startD, all) ==
    LET bounds == findDateBounds(chunkData)
        pushed == all \o chunkData
    IN IF bounds.earliestTimestamp - ONE_SECOND_MS <= startD
       THEN [shouldContinue |-> FALSE, nextEndDate |-> 0, allData |-> pushed]
       ELSE [shouldContinue |-> TRUE,
             nextEndDate |-> bounds.earliestTimestamp - ONE_SECOND_MS,
             allData |-> pushed]

\* mutant: the start date counts as reached only when strictly passed
processChunk_StrictlyBefore(chunkData, startD, all) ==
    LET bounds == findDateBounds(chunkData)
        pushed == all \o chunkData
    IN IF bounds.earliestTimestamp < startD
       THEN [shouldContinue |-> FALSE, nextEndDate |-> 0, allData |-> pushed]
       ELSE [shouldContinue |-> TRUE,
             nextEndDate |-> bounds.earliestTimestamp - ONE_SECOND_MS,
             allData |-> pushed]

\* processChunk: appends the chunk to allData, then decides whether to go on
processChunk(chunkData, startD, all) ==
    LET bounds == findDateBounds(chunkData)
        pushed == all \o chunkData
    IN IF bounds.earliestTimestamp <= startD
       THEN [shouldContinue |-> FALSE, nextEndDate |-> 0, allData |-> pushed]
       ELSE [shouldContinue |-> TRUE,
             nextEndDate |-> bounds.earliestTimestamp - ONE_SECOND_MS,
             allData |-> pushed]

\* mutant: the upper end of the window is not tested
filterDataByDateRange_NoUpper(dataIn, startD, endD) ==
    LET InRange(t) == t >= startD
    IN SelectSeq(dataIn, InRange)

\* mutant: the two tests joined by || instead of &&
filterDataByDateRange_Or(dataIn, startD, endD) ==
    LET InRange(t) == t >= startD \/ t <= endD
    IN SelectSeq(dataIn, InRange)

filterDataByDateRange(dataIn, startD, endD) ==
    LET InRange(t) == t >= startD /\ t <= endD
    IN SelectSeq(dataIn, InRange)

\* mutant: the array is copied but not sorted
sortDataChronologically_Unsorted(dataIn) == dataIn

sortDataChronologically(dataIn) == SortAscending(dataIn)

\* the filtered array is bound once, then sorted
processRetrievedData(all, startD, endD) ==
    CHOOSE sortedData \in {sortDataChronologically(filteredData) :
                              filteredData \in {filterDataByDateRange(all, startD, endD)}} : TRUE

\* mutant: the cap is tested with <=
\* mutant: the loop has no cap on the number of page requests
LoopContinues_NoCap(reached, count) == ~reached

LoopContinues_OneMore(reached, count) == ~reached /\ count <= MAX_FETCH_OPERATIONS

\* while (!reachedStartDate && fetchCount < MAX_FETCH_OPERATIONS)
LoopContinues(reached, count) == ~reached /\ count < MAX_FETCH_OPERATIONS

\* ------------------------------------------------------------------ Init
Init ==
    /\ sourceMode \in {"honest", "ignoring"}
    /\ sourceOrder \in IF sourceMode = "honest" THEN {"desc", "asc"} ELSE {"desc"}
    /\ store \in SUBSET Times
    /\ rateLimitDelay = DEFAULT_RATE_LIMIT_DELAY_MS
    /\ pc = "idle"
    /\ startDate = 0 /\ endDate = 0 /\ currentEnd = 0
    /\ allData = <<>>
    /\ reachedStartDate = FALSE
    /\ fetchCount = 0
    /\ retries = 0
    /\ result = <<>>
    /\ thrown = NoError
    /\ attempts = 0
    /\ waits = <<>>
    /\ delays = 0
    /\ pageLog = <<>>
    /\ lastError = NoError
    /\ tzOffsetMin = 0
    /\ minTemp = DEFAULT_MIN_TEMP_F /\ maxTemp = DEFAULT_MAX_TEMP_F
    /\ calcPc = "off"
    /\ data = <<>>
    /\ report = NoReport
    /\ NoSeasonCall

\* --------------------------------------------------------------- actions
\* getDeviceDataForDateRange(mac, s, e) up to the first axios.get:
\* fetchDataInChunks initialises its frame, the loop test passes
\* (0 < MAX_FETCH_OPERATIONS), fetchCount++ and the first page is requested.
GetDeviceDataForDateRange(s, e) ==
    /\ pc = "idle"
    /\ startDate' = s
    /\ endDate' = e
    /\ currentEnd' = e
    /\ allData' = <<>>
    /\ reachedStartDate' = FALSE
    /\ IF LoopContinues(FALSE, 0)
       THEN /\ fetchCount' = 1
            /\ retries' = 0
            /\ attempts' = 1
            /\ pc' = "request"
            /\ result' = result
       ELSE /\ fetchCount' = 0
            /\ retries' = retries
            /\ attempts' = attempts
            /\ pc' = "done"
            /\ result' = processRetrievedData(<<>>, s, e)
    /\ waits' = <<>>
    /\ lastError' = NoError
    /\ UNCHANGED <<envVars, thrown, delays, pageLog>>
    /\ UNCHANGED calcVars

\* axios.get resolves: makeRequest returns the page; fetchDataInChunks either
\* breaks (empty page), stops (start date reached) or moves the cursor and
\* starts the rate-limit sleep.  When the loop ends the accumulated data is
\* filtered and sorted and the fetch resolves.
ResponseOk ==
    /\ pc = "request"
    /\ \E page \in {SourcePage(createRequestParams(currentEnd, DEFAULT_READINGS_PER_CHUNK))} :
          /\ pageLog' = Append(pageLog, page)
          /\ IF Len(page) = 0
             THEN /\ pc' = "done"
                  /\ result' = processRetrievedData(allData, startDate, endDate)
                  /\ UNCHANGED <<allData, reachedStartDate, currentEnd, delays>>
             ELSE LET r == processChunk(page, startDate, allData)
                  IN /\ allData' = r.allData
                     /\ reachedStartDate' = ~r.shouldContinue
                     /\ IF r.shouldContinue
                        THEN /\ currentEnd' = r.nextEndDate
                             /\ delays' = delays + 1
                             /\ pc' = "delay"
                             /\ result' = result
                        ELSE /\ pc' = "done"
                             /\ result' = processRetrievedData(r.allData, startDate, endDate)
                             /\ UNCHANGED <<currentEnd, delays>>
    /\ UNCHANGED <<envVars, startDate, endDate, fetchCount, retries, thrown,
                   attempts, waits, lastError>>
    /\ UNCHANGED calcVars

\* the rate-limit sleep ends: the loop test is taken again
DelayElapsed ==
    /\ pc = "delay"
    /\ IF LoopContinues(reachedStartDate, fetchCount)
       THEN /\ fetchCount' = fetchCount + 1
            /\ retries' = 0
            /\ attempts' = 1
            /\ waits' = <<>>
            /\ lastError' = NoError
            /\ pc' = "request"
            /\ result' = result
       ELSE /\ pc' = "done"
            /\ result' = processRetrievedData(allData, startDate, endDate)
            /\ UNCHANGED <<fetchCount, retries, attempts, waits, lastError>>
    /\ UNCHANGED <<envVars, startDate, endDate, currentEnd, allData,
                   reachedStartDate, thrown, delays, pageLog>>
    /\ UNCHANGED calcVars

\* axios.get rejects with error: the catch block of makeRequest
ResponseError(error) ==
    /\ pc = "request"
    /\ fetchCount <= MaxFaultyFetch
    /\ lastError' = error
    /\ IF isRetryableError(error) /\ ~RetriesExhausted(retries, DEFAULT_MAX_RETRIES)
       THEN /\ retries' = retries + 1
            /\ waits' = Append(waits, calculateBackoffDelay(retries + 1))
            /\ pc' = "backoff"
            /\ thrown' = thrown
       ELSE /\ thrown' = Rethrow(error)
            /\ pc' = "failed"
            /\ UNCHANGED <<retries, waits>>
    /\ UNCHANGED <<envVars, startDate, endDate, currentEnd, allData,
                   reachedStartDate, fetchCount, result, attempts, delays, pageLog>>
    /\ UNCHANGED calcVars

\* the backoff sleep ends: continue, the next axios.get is issued
BackoffElapsed ==
    /\ pc = "backoff"
    /\ pc' = "request"
    /\ attempts' = attempts + 1
    /\ UNCHANGED <<envVars, startDate, endDate, currentEnd, allData,
                   reachedStartDate, fetchCount, retries, result, thrown,
                   waits, delays, pageLog, lastError>>
    /\ UNCHANGED calcVars

Next ==
    \/ \E s \in Times, e \in Times : GetDeviceDataForDateRange(s, e)
    \/ ResponseOk
    \/ DelayElapsed
    \/ \E error \in Errors : ResponseError(error)
    \/ BackoffElapsed

Spec == Init /\ [][Next]_vars

\* Every request completes (with a page or with an error) and every wait
\* (backoff, rate-limit delay) elapses; the caller makes its call.
FairSpec ==
    /\ Spec
    /\ WF_vars(\E s \in Times, e \in Times : GetDeviceDataForDateRange(s, e))
    /\ WF_vars(ResponseOk \/ \E error \in Errors : ResponseError(error))
    /\ WF_vars(DelayElapsed)
    /\ WF_vars(BackoffElapsed)

\* =================================================== ChillHourCalculator
\* ---- Date: the local calendar fields of an epoch-ms timestamp.  Local time
\* is UTC plus the fixed offset tzOffsetMin (daylight-saving shifts are
\* outside the model).
LocalMs(timestamp) == timestamp + tzOffsetMin * 60 * 1000

\* days since 1970-01-01 of the local calendar day (floor division)
LocalDay(timestamp) == baseDay + (LocalMs(timestamp) \div MILLISECONDS_PER_DAY)

\* the proleptic Gregorian date <<year, month, day>> of a day number
CivilFromDays(dayNumber) ==
    LET z     == dayNumber + 719468
        era   == z \div 146097
        doe   == z - era * 146097
        yoe   == (doe - doe \div 1460 + doe \div 36524 - doe \div 146096) \div 365
        doy   == doe - (365 * yoe + yoe \div 4 - yoe \div 100)
        mp    == (5 * doy + 2) \div 153
        d     == doy - (153 * mp + 2) \div 5 + 1
        m     == IF mp < 10 THEN mp + 3 ELSE mp - 9
        y     == yoe + era * 400 + (IF m <= 2 THEN 1 ELSE 0)
    IN <<y, m, d>>

\* Date.prototype.getFullYear / getMonth()+1 / getDate / getHours
LocalDate(timestamp) == CivilFromDays(LocalDay(timestamp))
LocalHours(timestamp) == (LocalMs(timestamp) % MILLISECONDS_PER_DAY) \div MILLISECONDS_PER_HOUR

\* toLocaleDateString(): the local calendar date, as <<year, month, day>>
toLocaleDateString(timestamp) == LocalDate(timestamp)

\* ---- the calculator
createEmptyReport(message) ==
    [totalHours |-> 0, chillHours |-> 0, date |-> message,
     percentChillHours |-> Ratio(0, 1)]

RECURSIVE InsertByDate(_, _)
\* x placed after every reading not later than it (a stable insertion)
InsertByDate(sorted, x) ==
    IF sorted = <<>> THEN <<x>>
    ELSE IF x.dateutc < sorted[Len(sorted)].dateutc
         THEN Append(InsertByDate(SubSeq(sorted, 1, Len(sorted) - 1), x), sorted[Len(sorted)])
         ELSE Append(sorted, x)

RECURSIVE SortByDate(_)
\* [...data].sort((a, b) => a.dateutc - b.dateutc): a sorted copy, stable
SortByDate(s) ==
    IF s = <<>> THEN <<>>
    ELSE InsertByDate(SortByDate(SubSeq(s, 1, Len(s) - 1)), s[Len(s)])

\* mutant: the readings are used in the order given
sortReadingsChronologically_AsGiven(dataIn) == dataIn

sortReadingsChronologically(dataIn) == SortByDate(dataIn)

\* `${getFullYear()}-${getMonth()+1}-${getDate()}-${getHours()}`: the four
\* numbers, which the '-' separated string determines and is determined by
createHourKey(timestamp) ==
    LET ymd == LocalDate(timestamp)
    IN <<ymd[1], ymd[2], ymd[3], LocalHours(timestamp)>>

isTemperatureInChillRange(tempF) == tempF >= minTemp /\ tempF <= maxTemp

RECURSIVE groupReadingsByHour(_)
\* the Map hourKey -> {temps, inRange}, built in the order of sortedData
groupReadingsByHour(sortedData) ==
    IF sortedData = <<>> THEN [k \in {} |-> [temps |-> <<>>, inRange |-> 0]]
    ELSE LET before == groupReadingsByHour(SubSeq(sortedData, 1, Len(sortedData) - 1))
             entry  == sortedData[Len(sortedData)]
             key    == createHourKey(entry.dateutc)
             old    == IF key \in DOMAIN before THEN before[key]
                       ELSE [temps |-> <<>>, inRange |-> 0]
             new    == [temps |-> Append(old.temps, entry.tempf),
                        inRange |-> old.inRange
                                    + (IF isTemperatureInChillRange(entry.tempf) THEN 1 ELSE 0)]
         IN [k \in DOMAIN before \cup {key} |-> IF k = key THEN new ELSE before[k]]

\* mutant: only a strict majority of in-range readings makes a chill hour
isChillHour_Majority(hourData) ==
    Len(hourData.temps) > 0 /\ 2 * hourData.inRange > Len(hourData.temps)

\* temps.length > 0 && inRange / temps.length >= 0.5.  The quotient of two
\* small integers is below 0.5 in floating point exactly when it is below
\* 0.5 in the rationals, so the test is 2 * inRange >= temps.length.
isChillHour(hourData) ==
    Len(hourData.temps) > 0 /\ 2 * hourData.inRange >= Len(hourData.temps)

countChillHours(hourlyData) ==
    [totalHours |-> Cardinality(DOMAIN hourlyData),
     chillHours |-> Cardinality({k \in DOMAIN hourlyData : isChillHour(hourlyData[k])})]

\* mutant: the ratio is not scaled to a percentage
createReport_Unscaled(sortedData, totalHours, chillHours) ==
    [totalHours |-> totalHours,
     chillHours |-> chillHours,
     date |-> <<toLocaleDateString(sortedData[1].dateutc), "to",
                toLocaleDateString(sortedData[Len(sortedData)].dateutc)>>,
     percentChillHours |-> IF totalHours > 0 THEN Ratio(chillHours, totalHours)
                           ELSE Ratio(0, 1)]

\* percentChillHours: (chillHours / totalHours) * 100 as the exact rational
\* 100 * chillHours / totalHours (floating-point rounding is not modelled)
createReport(sortedData, totalHours, chillHours) ==
    [totalHours |-> totalHours,
     chillHours |-> chillHours,
     date |-> <<toLocaleDateString(sortedData[1].dateutc), "to",
                toLocaleDateString(sortedData[Len(sortedData)].dateutc)>>,
     percentChillHours |-> IF totalHours > 0 THEN Ratio(chillHours * 100, totalHours)
                           ELSE Ratio(0, 1)]

calculateChillHours(dataIn) ==
    LET sortedData == sortReadingsChronologically(dataIn)
    IN IF Len(sortedData) = 0
       THEN createEmptyReport(<<"No data available">>)
       ELSE LET counts == countChillHours(groupReadingsByHour(sortedData))
            IN createReport(sortedData, counts.totalHours, counts.chillHours)

\* ---- the season calculation
\* days since 1970-01-01 of the proleptic Gregorian date y-m-d
DaysFromCivil(y, m, d) ==
    LET yy  == IF m <= 2 THEN y - 1 ELSE y
        era == yy \div 400
        yoe == yy - era * 400
        mp  == (m + 9) % 12
        doy == (153 * mp + 2) \div 5 + d - 1
        doe == yoe * 365 + yoe \div 4 - yoe \div 100 + doy
    IN era * 146097 + doe - 719468

\* new Date(fullYear, monthIndex, dayOfMonth): local midnight of that date,
\* a dayOfMonth of 0 being the last day of the month before
NewDate(fullYear, monthIndex, dayOfMonth) ==
    Instant(DaysFromCivil(fullYear, monthIndex + 1, 1) + dayOfMonth - 1,
            0 - tzOffsetMin * 60 * 1000)

\* new Date(entry.dateutc)
DateOf(timestamp) == Instant(baseDay, timestamp)

\* a <= b on Dates: the comparison of their getTime() values
NotAfter(a, b) == a.day < b.day \/ (a.day = b.day /\ a.ms <= b.ms)

\* date.toLocaleDateString() of a Date: its local date <<year, month, day>>
LocaleDateOf(date) == CivilFromDays(Instant(date.day, date.ms + tzOffsetMin * 60 * 1000).day)

\* mutant: a season starting in July or later begins in the target year
determineSeasonDates_NoYearBack(startMonth, yearArg) ==
    LET calculationYear == IF yearArg # 0 THEN yearArg ELSE currentYear
    IN IF startMonth <= 6
       THEN [seasonStart |-> NewDate(calculationYear, startMonth - 1, 1),
             seasonEnd   |-> NewDate(calculationYear, DECEMBER_MONTH, 31)]
       ELSE [seasonStart |-> NewDate(calculationYear, startMonth - 1, 1),
             seasonEnd   |-> NewDate(calculationYear, startMonth - 1, 0)]

\* mutant: an early season ends with November
determineSeasonDates_EndsNovember(startMonth, yearArg) ==
    LET calculationYear == IF yearArg # 0 THEN yearArg ELSE currentYear
    IN IF startMonth <= 6
       THEN [seasonStart |-> NewDate(calculationYear, startMonth - 1, 1),
             seasonEnd   |-> NewDate(calculationYear, DECEMBER_MONTH, 0)]
       ELSE [seasonStart |-> NewDate(calculationYear - 1, startMonth - 1, 1),
             seasonEnd   |-> NewDate(calculationYear, startMonth - 1, 0)]

\* calculationYear = year || currentYear: an omitted (or zero) year is the
\* current one
determineSeasonDates(startMonth, yearArg) ==
    LET calculationYear == IF yearArg # 0 THEN yearArg ELSE currentYear
    IN IF startMonth <= 6
       THEN [seasonStart |-> NewDate(calculationYear, startMonth - 1, 1),
             seasonEnd   |-> NewDate(calculationYear, DECEMBER_MONTH, 31)]
       ELSE [seasonStart |-> NewDate(calculationYear - 1, startMonth - 1, 1),
             seasonEnd   |-> NewDate(calculationYear, startMonth - 1, 0)]

\* Math.round((endDate.getTime() - startDate.getTime()) / MILLISECONDS_PER_DAY);
\* Math.round takes a half upwards
calculateDaysBetween(fromDate, toDate) ==
    (toDate.day - fromDate.day)
        + ((2 * (toDate.ms - fromDate.ms) + MILLISECONDS_PER_DAY)
               \div (2 * MILLISECONDS_PER_DAY))

filterDataForSeason(allReadings, seasonStart, seasonEnd) ==
    LET InSeason(entry) ==
            /\ NotAfter(seasonStart, DateOf(entry.dateutc))
            /\ NotAfter(DateOf(entry.dateutc), seasonEnd)
    IN SelectSeq(allReadings, InSeason)

findDateRange(readings) ==
    LET timestamps == [i \in DOMAIN readings |-> readings[i].dateutc]
    IN [earliestDate |-> DateOf(SeqMin(timestamps)),
        latestDate   |-> DateOf(SeqMax(timestamps))]

\* what logDataCoverage writes with console.warn
logDataCoverage(seasonData, seasonStart, seasonEnd) ==
    LET range           == findDateRange(seasonData)
        coverageDays    == calculateDaysBetween(range.earliestDate, range.latestDate)
        totalSeasonDays == calculateDaysBetween(seasonStart, seasonEnd)
        coveragePercent == (200 * coverageDays + totalSeasonDays)
                               \div (2 * totalSeasonDays)
    IN IF coveragePercent < MIN_COVERAGE_PERCENT
       THEN <<"low coverage">> ELSE <<>>

\* mutant: an empty season is handed on to calculateChillHours
calculateSeasonChillHours_NoEmptyCheck(allReadings, startMonth, yearArg) ==
    LET dates      == determineSeasonDates(startMonth, yearArg)
        seasonData == filterDataForSeason(allReadings, dates.seasonStart, dates.seasonEnd)
    IN [report   |-> calculateChillHours(seasonData),
        warnings |-> <<>>]

\* the report calculateSeasonChillHours returns, and its warnings
calculateSeasonChillHours(allReadings, startMonth, yearArg) ==
    LET dates      == determineSeasonDates(startMonth, yearArg)
        seasonData == filterDataForSeason(allReadings, dates.seasonStart, dates.seasonEnd)
    IN IF Len(seasonData) = 0
       THEN [report   |-> createEmptyReport(<<LocaleDateOf(dates.seasonStart), "to",
                                              LocaleDateOf(dates.seasonEnd), "(no data)">>),
             warnings |-> <<"no data">>]
       ELSE [report   |-> calculateChillHours(seasonData),
             warnings |-> logDataCoverage(seasonData, dates.seasonStart, dates.seasonEnd)]

\* ---- inputs of the calculator
FirstSlotMinutes == 18 * 60
SlotTimes == {(FirstSlotMinutes + k * SlotMinutes) * 60 * 1000 : k \in 0..MaxSlot}

Temperatures == {DEFAULT_MIN_TEMP_F - 1, DEFAULT_MIN_TEMP_F,
                 DEFAULT_MAX_TEMP_F, DEFAULT_MAX_TEMP_F + 1}

Readings == [dateutc : SlotTimes, tempf : Temperatures]

TzOffsets == {-480, 330}

\* the fetcher at rest
FetchIdle ==
    /\ sourceMode = "honest" /\ sourceOrder = "desc" /\ store = {}
    /\ rateLimitDelay = DEFAULT_RATE_LIMIT_DELAY_MS
    /\ pc = "off"
    /\ startDate = 0 /\ endDate = 0 /\ currentEnd = 0
    /\ allData = <<>> /\ reachedStartDate = FALSE /\ fetchCount = 0
    /\ retries = 0 /\ result = <<>> /\ thrown = NoError
    /\ attempts = 0 /\ waits = <<>> /\ delays = 0
    /\ pageLog = <<>> /\ lastError = NoError

\* a calculator constructed with the default range, and any array of readings
InitChill ==
    /\ FetchIdle
    /\ tzOffsetMin \in TzOffsets
    /\ minTemp = DEFAULT_MIN_TEMP_F /\ maxTemp = DEFAULT_MAX_TEMP_F
    /\ calcPc = "ready"
    /\ data \in UNION {[1..n -> Readings] : n \in 0..MaxReadings}
    /\ report = NoReport
    /\ NoSeasonCall

\* report = calculator.calculateChillHours(data); the array is copied, not
\* sorted in place
CalculateChillHours ==
    /\ calcPc \in {"ready", "seasonReady"}
    /\ report' = calculateChillHours(data)
    /\ calcPc' = "done"
    /\ UNCHANGED <<fetchVars, tzOffsetMin, minTemp, maxTemp, data, baseDay,
                   currentYear, seasonStartMonth, year, season, warnings>>

NextChill == CalculateChillHours

SpecChill == InitChill /\ [][NextChill]_vars

\* ---- inputs of the season calculation
\* the year argument: omitted, or 2023
SeasonYears == {0, 2023}

\* the days the readings are taken around: the first day of the start month
\* in the year before the target year and in the target year, and the first
\* day of the year after it
AnchorDays(startMonth, targetYear) ==
    {DaysFromCivil(targetYear - 1, startMonth, 1),
     DaysFromCivil(targetYear, startMonth, 1),
     DaysFromCivil(targetYear + 1, 1, 1)}

\* local clock times of the readings, in hours from the local midnight that
\* begins day baseDay: 23:00 two days before, then 00:00, 12:00 and 23:00 of
\* the day before, and that midnight itself
SeasonLocalHours == {-25, -24, -12, -1, 0}

SeasonTemperatures == {DEFAULT_MIN_TEMP_F, DEFAULT_MAX_TEMP_F + 1}

SeasonReadings ==
    [dateutc : {h * MILLISECONDS_PER_HOUR - tzOffsetMin * 60 * 1000 : h \in SeasonLocalHours},
     tempf   : SeasonTemperatures]

InitSeason ==
    /\ FetchIdle
    /\ tzOffsetMin \in TzOffsets
    /\ minTemp = DEFAULT_MIN_TEMP_F /\ maxTemp = DEFAULT_MAX_TEMP_F
    /\ calcPc = "seasonReady"
    /\ currentYear = ThisYear
    /\ seasonStartMonth \in 1..12
    /\ year \in SeasonYears
    /\ baseDay \in AnchorDays(seasonStartMonth, IF year # 0 THEN year ELSE currentYear)
    /\ data \in UNION {[1..n -> SeasonReadings] : n \in 0..MaxSeasonReadings}
    /\ report = NoReport
    /\ season = NoSeason
    /\ warnings = <<>>

\* report = calculator.calculateSeasonChillHours(data, seasonStartMonth, year)
CalculateSeasonChillHours ==
    /\ calcPc = "seasonReady"
    /\ season' = determineSeasonDates(seasonStartMonth, year)
    /\ LET returned == calculateSeasonChillHours(data, seasonStartMonth, year)
       IN /\ report' = returned.report
          /\ warnings' = returned.warnings
    /\ calcPc' = "seasonDone"
    /\ UNCHANGED <<fetchVars, tzOffsetMin, minTemp, maxTemp, data, baseDay,
                   currentYear, seasonStartMonth, year>>

\* the caller holding readings calls one method or the other
NextSeason ==
    \/ CalculateSeasonChillHours
    \/ CalculateChillHours

SpecSeason == InitSeason /\ [][NextSeason]_vars

\* ===================================================== properties: fetch
ResultSet == {result[i] : i \in DOMAIN result}

InWindow(t) == startDate <= t /\ t <= endDate

\* the source readings of the requested window
WindowSamples == {t \in store : InWindow(t)}

\* how often timestamp t occurs in a sequence of timestamps
Occurrences(s, t) == Cardinality({i \in DOMAIN s : s[i] = t})

\* the i-th page received is non-empty and reaches the start date
Crossed(i) == pageLog[i] # <<>> /\ SeqMin(pageLog[i]) <= startDate

\* the fetch resolved before the safety cap came into play
CapNotReached == fetchCount < MAX_FETCH_OPERATIONS

\* any two distinct source readings are at least one second apart
SpacedSource ==
    \A a \in store, b \in store : a < b => b - a >= ONE_SECOND_MS

\* retryable as the retry policy words it: HTTP 429 or any 5xx
PolicyRetryable(error) ==
    error.response /\ (error.status = 429 \/ (error.status >= 500 /\ error.status <= 599))

\* C1 as stated: with an honest source, no failure and the cap not reached,
\* the resolved fetch holds every source reading of [startDate, endDate].
C1_CompleteAnySpacing ==
    (pc = "done" /\ sourceMode = "honest" /\ CapNotReached)
        => WindowSamples \subseteq ResultSet

\* C1 amended: the same, for a source whose readings are at least one second
\* apart (the cursor steps back a whole second past the earliest reading of a
\* page, so readings less than a second older than it are never requested).
C1_CompleteWhenSpaced ==
    (pc = "done" /\ sourceMode = "honest" /\ CapNotReached /\ SpacedSource)
        => WindowSamples \subseteq ResultSet

\* C1 witness: a spaced source served the window in two non-empty pages
C1_Witness ==
    /\ pc = "done" /\ sourceMode = "honest" /\ SpacedSource
    /\ Len(pageLog) = 2 /\ pageLog[2] # <<>>
    /\ Cardinality(WindowSamples) >= 3
    /\ WindowSamples \subseteq ResultSet

\* C2: every reading of the resolved result lies in [startDate, endDate],
\* while every reading of every page received, in the window or not, was
\* accumulated.
C2_ResultWithinWindow ==
    pc = "done" =>
        /\ \A i \in DOMAIN result : startDate <= result[i] /\ result[i] <= endDate
        /\ \A p \in DOMAIN pageLog : \A j \in DOMAIN pageLog[p] :
               \E k \in DOMAIN allData : allData[k] = pageLog[p][j]

\* C2 witness: a page brought a reading later than endDate, it was
\* accumulated, and the result is non-empty without it
C2_Witness ==
    /\ pc = "done" /\ result # <<>>
    /\ \E i \in DOMAIN allData : allData[i] > endDate
    /\ \A i \in DOMAIN result : result[i] <= endDate

\* C3 as stated: the timestamps of the result are strictly increasing.
C3_StrictlyIncreasing ==
    pc = "done" => \A i \in DOMAIN result : \A j \in DOMAIN result :
                       i < j => result[i] < result[j]

\* C3 amended: the result is sorted ascending (non-decreasing) and keeps every
\* accumulated in-window reading as often as it was accumulated: nothing is
\* deduplicated.
C3_SortedKeepsDuplicates ==
    pc = "done" =>
        /\ \A i \in DOMAIN result : \A j \in DOMAIN result :
               i < j => result[i] <= result[j]
        /\ \A t \in Times :
               Occurrences(result, t) = IF InWindow(t) THEN Occurrences(allData, t) ELSE 0

\* C3 witness: a reading served in two pages is twice in the result
C3_Witness ==
    /\ pc = "done" /\ Len(pageLog) >= 2
    /\ \E i \in DOMAIN result : i + 1 \in DOMAIN result /\ result[i] = result[i + 1]

\* C4 as stated: with startDate >= endDate the fetch resolves at once with
\* zero samples and no page request.
C4_EmptyWindowNoRequest ==
    (pc # "idle" /\ startDate >= endDate)
        => (pc = "done" /\ result = <<>> /\ fetchCount = 0 /\ attempts = 0)

\* C4 amended: a started fetch always issues a first page request, also when
\* startDate >= endDate; when startDate > endDate and the fetch resolves, the
\* result has zero samples; when startDate = endDate it holds the accumulated
\* readings of exactly that instant.
C4_EmptyWindowStillRequests ==
    (pc # "idle" /\ startDate >= endDate)
        => /\ fetchCount >= 1 /\ attempts >= 1
           /\ (pc = "done" /\ startDate > endDate) => result = <<>>
           /\ (pc = "done" /\ startDate = endDate) =>
                  ResultSet = {allData[i] : i \in DOMAIN allData} \cap {startDate}

\* C4 witness: startDate > endDate, a non-empty page was fetched and
\* accumulated, the fetch resolved with nothing
C4_Witness ==
    /\ pc = "done" /\ startDate > endDate
    /\ fetchCount >= 1 /\ allData # <<>> /\ result = <<>>

\* C5: the loop stops with the first page that is empty or reaches the start
\* date (no request follows it), and a fetch that resolves below the cap
\* without an empty page stopped at such a page: n requests for the n-th page
\* being the first to reach startDate.
C5_StopsExactlyAtBoundary ==
    /\ \A i \in DOMAIN pageLog :
           (Crossed(i) \/ pageLog[i] = <<>>) => (fetchCount = i /\ pc = "done")
    /\ (pc = "done" /\ CapNotReached)
           => /\ fetchCount = Len(pageLog)
              /\ (Crossed(fetchCount) \/ pageLog[fetchCount] = <<>>)

\* C5 witness: decreasing non-empty pages, the second the first to reach the
\* start date, two requests made
C5_Witness ==
    /\ pc = "done" /\ sourceMode = "honest"
    /\ Len(pageLog) = 2 /\ fetchCount = 2
    /\ pageLog[1] # <<>> /\ ~Crossed(1) /\ Crossed(2)
    /\ SeqMax(pageLog[2]) < SeqMin(pageLog[1])

\* C6: never more than MAX_FETCH_OPERATIONS page requests; when the last
\* allowed page is non-empty and short of the start date the fetch does not
\* fail, and it resolves with the accumulated in-window readings.
C6_SafetyCap ==
    /\ fetchCount <= MAX_FETCH_OPERATIONS
    /\ Len(pageLog) <= MAX_FETCH_OPERATIONS
    /\ ( /\ Len(pageLog) = MAX_FETCH_OPERATIONS
         /\ pageLog[MAX_FETCH_OPERATIONS] # <<>>
         /\ ~Crossed(MAX_FETCH_OPERATIONS) )
           => /\ pc \in {"delay", "done"}
              /\ thrown = NoError
              /\ pc = "done" =>
                    ResultSet = {allData[i] : i \in DOMAIN allData} \cap {t \in Times : InWindow(t)}

\* C6 witness: the fetch resolved at the cap with a non-empty partial result
C6_Witness ==
    /\ pc = "done" /\ fetchCount = MAX_FETCH_OPERATIONS
    /\ Len(pageLog) = MAX_FETCH_OPERATIONS
    /\ pageLog[MAX_FETCH_OPERATIONS] # <<>> /\ ~Crossed(MAX_FETCH_OPERATIONS)
    /\ result # <<>>

\* C7: a page request that succeeded after k failures took exactly k backoff
\* waits, k <= maxRetries, the i-th of rateLimitDelay * 2^(i-1), in k + 1
\* attempts, and its page was delivered.
C7_ExponentialBackoff ==
    pc \in {"delay", "done"} =>
        /\ retries <= DEFAULT_MAX_RETRIES
        /\ Len(waits) = retries
        /\ attempts = retries + 1
        /\ \A i \in DOMAIN waits : waits[i] = rateLimitDelay * Pow2(i - 1)
        /\ Len(pageLog) = fetchCount

\* C7 witness: three failures, the last a 429, then success
C7_Witness ==
    /\ pc \in {"delay", "done"}
    /\ lastError.status = 429
    /\ waits = <<rateLimitDelay, 2 * rateLimitDelay, 4 * rateLimitDelay>>
    /\ pageLog # <<>>

\* C8: no wait or retry follows an error that is not retryable; the fetch
\* fails with that very error and resolves with nothing, and a request whose
\* first error is not retryable was attempted once, with no wait.
C8_NonRetryablePropagates ==
    /\ pc = "backoff" => PolicyRetryable(lastError)
    /\ (lastError # NoError /\ ~PolicyRetryable(lastError))
           => /\ pc = "failed"
              /\ thrown = lastError
              /\ result = <<>>
              /\ retries = 0 => (attempts = 1 /\ waits = <<>>)

\* C8 witness: the second page request got a 401 at its first attempt, after
\* a first page had been accumulated
C8_Witness ==
    /\ pc = "failed" /\ lastError.status = 401
    /\ attempts = 1 /\ waits = <<>> /\ thrown = lastError
    /\ fetchCount = 2 /\ allData # <<>>

\* C9 as stated: exhausting the retries fails with a FetchError that carries
\* the last error as cause and the number of attempts.
C9_FetchErrorWithAttempts ==
    (pc = "failed" /\ PolicyRetryable(lastError))
        => /\ thrown.name = "FetchError"
           /\ "cause" \in DOMAIN thrown
           /\ "attempts" \in DOMAIN thrown
           /\ thrown.cause = lastError
           /\ thrown.attempts = attempts

\* C9 amended: exhausting the retries fails with the last underlying error
\* itself, unwrapped, after maxRetries + 1 attempts and maxRetries waits.
C9_LastErrorRethrown ==
    (pc = "failed" /\ PolicyRetryable(lastError))
        => /\ thrown = lastError
           /\ retries = DEFAULT_MAX_RETRIES
           /\ attempts = DEFAULT_MAX_RETRIES + 1
           /\ Len(waits) = DEFAULT_MAX_RETRIES

\* C9 witness: four attempts, the last answered 503
C9_Witness ==
    /\ pc = "failed" /\ lastError.status = 503
    /\ attempts = 4 /\ thrown = lastError

\* ================================================ properties: calculator
\* C10: in every report 0 <= chillHours <= totalHours, and percentChillHours
\* is 100 * chillHours / totalHours when totalHours > 0 and 0 otherwise
\* (compared by cross-multiplication).
C10_ReportInvariant ==
    calcPc = "done" =>
        /\ 0 <= report.chillHours
        /\ report.chillHours <= report.totalHours
        /\ report.percentChillHours.den > 0
        /\ report.totalHours > 0 =>
               report.percentChillHours.num * report.totalHours
                   = 100 * report.chillHours * report.percentChillHours.den
        /\ report.totalHours = 0 => report.percentChillHours.num = 0

\* C10 witness: two hours reported, one of them a chill hour (50 percent)
C10_Witness ==
    /\ calcPc = "done"
    /\ report.totalHours = 2 /\ report.chillHours = 1
    /\ report.percentChillHours = Ratio(100, 2)

\* the readings of `data` by position: the local clock hour a reading falls
\* in, the readings sharing an hour, and those of them inside the range
HourOf(i) == createHourKey(data[i].dateutc)
Bucket(k) == {i \in DOMAIN data : HourOf(i) = k}
InRangeOf(k) == {i \in Bucket(k) : minTemp <= data[i].tempf /\ data[i].tempf <= maxTemp}
HoursSampled == {HourOf(i) : i \in DOMAIN data}

Swap(s, i) ==
    [j \in DOMAIN s |-> IF j = i THEN s[i + 1] ELSE IF j = i + 1 THEN s[i] ELSE s[j]]

\* the report agrees with that of the sorted input and with that of the input
\* after any exchange of two neighbours
SameReportInAnyOrder ==
    calcPc = "done" =>
        /\ report = calculateChillHours(SortByDate(data))
        /\ \A i \in 1..(Len(data) - 1) : report = calculateChillHours(Swap(data, i))

\* C12: calculateChillHours gives the same report (totalHours, chillHours,
\* percentage, period label) for the readings in any order as for the sorted
\* readings, and leaves the caller's array as it was.  Every array of readings
\* is an input, so agreement under each exchange of neighbours is agreement
\* under every permutation.
C12_OrderIndependent == [](SameReportInAnyOrder) /\ [][data' = data]_vars

\* C12 witness: a report over readings given newest first, whose first and
\* last reading fall on different calendar days
C12_Witness ==
    /\ calcPc = "done"
    /\ Len(data) >= 2
    /\ \A i \in 1..(Len(data) - 1) : data[i].dateutc > data[i + 1].dateutc
    /\ report.date[1] # report.date[3]
    /\ report.date[1] = toLocaleDateString(data[Len(data)].dateutc)

\* ============================================ properties: season window
\* the target year of the call, and the number of days of a month
TargetYear == IF year # 0 THEN year ELSE currentYear
IsLeapYear(y) == (y % 4 = 0 /\ y % 100 # 0) \/ y % 400 = 0
DaysInMonth(y, m) ==
    IF m = 2 THEN (IF IsLeapYear(y) THEN 29 ELSE 28)
    ELSE IF m \in {4, 6, 9, 11} THEN 30 ELSE 31

\* the local dates the determined window starts and ends on
WindowStartDate == LocaleDateOf(season.seasonStart)
WindowEndDate == LocaleDateOf(season.seasonEnd)

\* C13: for a start month m in 7..12 and target year y the window runs from
\* the 1st of month m of year y-1 to the last day of month m-1 of year y; for
\* m in 1..6 from the 1st of month m of year y to December 31 of year y.
C13_SeasonWindow ==
    calcPc = "seasonDone" =>
        IF seasonStartMonth >= 7
        THEN /\ WindowStartDate = <<TargetYear - 1, seasonStartMonth, 1>>
             /\ WindowEndDate = <<TargetYear, seasonStartMonth - 1,
                                  DaysInMonth(TargetYear, seasonStartMonth - 1)>>
        ELSE /\ WindowStartDate = <<TargetYear, seasonStartMonth, 1>>
             /\ WindowEndDate = <<TargetYear, 12, 31>>

\* C13 witness: start month 9 and year 2023 give 2022-09-01 to 2023-08-31
C13_Witness ==
    /\ calcPc = "seasonDone"
    /\ seasonStartMonth = 9 /\ year = 2023
    /\ WindowStartDate = <<2022, 9, 1>>
    /\ WindowEndDate = <<2023, 8, 31>>

\* C14 as stated: for every start month m <= 6 and target year y the window
\* spans January 1 of y through December 31 of y.
C14_JanuaryToDecember ==
    (calcPc = "seasonDone" /\ seasonStartMonth <= 6) =>
        /\ WindowStartDate = <<TargetYear, 1, 1>>
        /\ WindowEndDate = <<TargetYear, 12, 31>>

\* C14 as the code has it: for every start month m <= 6 and target year y the
\* window lies in the calendar year y, from the 1st of month m through
\* December 31; it starts on January 1 exactly when m = 1.
C14_StartMonthToDecember ==
    (calcPc = "seasonDone" /\ seasonStartMonth <= 6) =>
        /\ WindowStartDate = <<TargetYear, seasonStartMonth, 1>>
        /\ WindowEndDate = <<TargetYear, 12, 31>>
        /\ (WindowStartDate = <<TargetYear, 1, 1>>) <=> (seasonStartMonth = 1)
        /\ calculateDaysBetween(season.seasonStart, season.seasonEnd)
               = DaysFromCivil(TargetYear, 12, 31)
                     - DaysFromCivil(TargetYear, seasonStartMonth, 1)

\* C14 witness: start month 3 and year 2023 give 2023-03-01 to 2023-12-31
C14_Witness ==
    /\ calcPc = "seasonDone"
    /\ seasonStartMonth = 3 /\ year = 2023
    /\ WindowStartDate = <<2023, 3, 1>>
    /\ WindowEndDate = <<2023, 12, 31>>

\* the readings of `data` whose local date lies from the window's first day
\* through its last day, at any hour of those days
DatedInWindow(entry) ==
    /\ DaysFromCivil(WindowStartDate[1], WindowStartDate[2], WindowStartDate[3])
           <= LocalDay(entry.dateutc)
    /\ LocalDay(entry.dateutc)
           <= DaysFromCivil(WindowEndDate[1], WindowEndDate[2], WindowEndDate[3])
ReadingsDatedInWindow == SelectSeq(data, DatedInWindow)

\* C15: calculateSeasonChillHours returns the report calculateChillHours
\* gives for exactly the samples dated within the season window, both ends
\* included, samples at any hour of the window's last day among them; the
\* coverage computation and its warning do not change the report.  (Stated
\* for a window holding at least one sample; C16 treats the empty one.)
C15_WholeLastDayCounts ==
    (calcPc = "seasonDone" /\ ReadingsDatedInWindow # <<>>) =>
        report = calculateChillHours(ReadingsDatedInWindow)

\* a report of zero hours
ZeroReport ==
    /\ report.totalHours = 0 /\ report.chillHours = 0
    /\ report.percentChillHours.num = 0 /\ report.percentChillHours.den # 0

\* the report of the season call when no reading is dated within the window:
\* zero hours, labelled with the window's bounds and "(no data)"
EmptySeasonReported ==
    (calcPc = "seasonDone" /\ ReadingsDatedInWindow = <<>>) =>
        /\ ZeroReport
        /\ report.date = <<WindowStartDate, "to", WindowEndDate, "(no data)">>

\* C16 as stated: calculateChillHours on an empty sample set and
\* calculateSeasonChillHours with no sample in the window return a report of
\* zero hours and zero percent, labelled "no data" in the first case and with
\* the window bounds plus "(no data)" in the second.
C16_LabelledNoData ==
    /\ (calcPc = "done" /\ data = <<>>) => (ZeroReport /\ report.date = <<"no data">>)
    /\ EmptySeasonReported

\* C16 as the code has it: the label of the first case is "No data available".
C16_LabelledNoDataAvailable ==
    /\ (calcPc = "done" /\ data = <<>>) =>
           (ZeroReport /\ report.date = <<"No data available">>)
    /\ EmptySeasonReported

\* C16 witness: a season call given readings, none of them dated within the
\* window, has returned the zero report for 2022-09-01 to 2023-08-31
C16_Witness ==
    /\ calcPc = "seasonDone"
    /\ data # <<>> /\ ReadingsDatedInWindow = <<>>
    /\ ZeroReport
    /\ report.date = <<(<<2022, 9, 1>>), "to", (<<2023, 8, 31>>), "(no data)">>

\* ============================================ properties: pacing, termination
\* C17: page requests are issued one at a time; exactly one rate-limit delay
\* elapses between two consecutive page requests, and a rate-limit delay is
\* taken only when another page request follows it, never after the last page
\* request of a fetch.  With fetchCount page requests issued and `delays`
\* rate-limit delays begun: while page request fetchCount is out (or backing
\* off) delays = fetchCount - 1, during the delay after it delays =
\* fetchCount, and once the fetch is over every delay lay between two
\* requests, delays = fetchCount - 1.
C17_DelayOnlyBetweenRequests ==
    /\ pc \in {"request", "backoff"} => delays = fetchCount - 1
    /\ pc = "delay" => delays = fetchCount
    /\ pc \in {"done", "failed"} => delays = fetchCount - 1

\* getDeviceDataForDateRange has resolved or rejected
Finished == pc \in {"done", "failed"}

\* the largest number of attempts of one page request
MaxAttempts == DEFAULT_MAX_RETRIES + 1

\* what is left of a fetch at most: the page requests still allowed, each
\* worth 2 * MaxAttempts + 2 steps, and within the current page request the
\* attempts still allowed, the backoff of the current attempt and the
\* rate-limit delay
StepsLeft ==
    LET perPage == 2 * MaxAttempts + 2
        pagesLeft == MAX_FETCH_OPERATIONS - fetchCount
    IN CASE pc = "idle"    -> (MAX_FETCH_OPERATIONS + 1) * perPage
         [] pc = "request" -> pagesLeft * perPage + 2 * (MaxAttempts - attempts) + 3
         [] pc = "backoff" -> pagesLeft * perPage + 2 * (MaxAttempts - attempts) + 2
         [] pc = "delay"   -> pagesLeft * perPage + 1
         [] OTHER          -> 0

\* C18: whatever the source does, when every request and every wait
\* completes, getDeviceDataForDateRange eventually finishes with a result or
\* an error, after at most MAX_FETCH_OPERATIONS page requests of at most
\* maxRetries + 1 attempts each.  In finite-run form: the two counters stay
\* within their limits, a fetch that has not finished always has a next step
\* (a response, or a wait elapsing), and every step lowers StepsLeft, which
\* is never negative; under FairSpec the steps are taken, so the fetch
\* finishes within StepsLeft steps.
C18_Terminates ==
    /\ [](fetchCount <= MAX_FETCH_OPERATIONS /\ attempts <= MaxAttempts)
    /\ [](StepsLeft >= 0)
    /\ [](Finished \/ ENABLED Next)
    /\ [][StepsLeft' < StepsLeft]_vars

\* C18 witness: a source that answered every request with the same non-empty
\* page, never reaching the start date; the fetch finished with a result
\* after MAX_FETCH_OPERATIONS page requests
C18_Witness ==
    /\ pc = "done" /\ thrown = NoError
    /\ fetchCount = MAX_FETCH_OPERATIONS
    /\ Len(pageLog) = MAX_FETCH_OPERATIONS
    /\ pageLog[1] # <<>>
    /\ \A i \in DOMAIN pageLog : pageLog[i] = pageLog[1] /\ ~Crossed(i)

====
